---- MODULE Spec2Model ----
(***************************************************************************)
(* Model of the payment engine of src/src/main.rs: the loop of             *)
(* open_and_read_csv replays an ordered stream of CSV records against two  *)
(* hash maps, `records` (transaction id -> Record) and `clients`           *)
(* (client id -> Client).  One action per transaction type; each action is *)
(* one whole iteration of the loop (ledger insert, handler, debug print).  *)
(*                                                                         *)
(* rust_decimal::Decimal is exact, so amounts are modelled as integers     *)
(* (a number of smallest units); str::parse::<Decimal> accepts a leading   *)
(* minus sign, so the amounts of the stream include a negative one.        *)
(***************************************************************************)
EXTENDS Integers, FiniteSets, Sequences, TLC

\* ------------------------------------------------------------------ bounds
\* largest amount of a deposit or withdrawal row, and length of the stream
MaxAmount == 2
MaxRecords == 4
\* length of a stream whose deposit and withdrawal rows all carry a new id
MaxDistinctRecords == 4

\* The handlers use client and transaction ids only as hash-map keys and in
\* equality tests, so two of each give every case: known and unknown id,
\* matching and mismatching client, fresh and reused transaction id.
ClientIds == {1, 2}
TxIds == {1, 2}
\* ids of a stream that never reuses one: at most three deposits/withdrawals
DistinctTxIds == {1, 2, 3}
Amounts == (0 - 1)..MaxAmount

\* ------------------------------------------------------------------- state
VARIABLES clients, records, last, pc, n, applied

\* `applied` is an observer, not a field of the program: the ids of the
\* Ledger entries whose deposit or withdrawal row changed the balances
\* (lines 127-128, 132-138 or 151-152 ran for it).
vars == <<clients, records, last, pc, n, applied>>

\* an insert that keeps the entry a key already has (first write wins)
MapInsert_keep_existing(m, k, v) ==
    [x \in (DOMAIN m) \cup {k} |-> IF x \in DOMAIN m THEN m[x] ELSE v]

\* HashMap::insert: add or overwrite the entry of key k
MapInsert(m, k, v) == [x \in (DOMAIN m) \cup {k} |-> IF x = k THEN v ELSE m[x]]

EmptyMap == [x \in {} |-> 0]

\* Record { transaction_type, client_id, amount, disputed: false, locked: false }
NewRecord(kind, c, a) ==
    [transaction_type |-> kind, client_id |-> c, amount |-> a,
     disputed |-> FALSE, locked |-> FALSE]

\* Client { client_id, available: amount, held: 0, total: amount, locked: false }
NewClient(c, a) ==
    [client_id |-> c, available |-> a, held |-> 0, total |-> a, locked |-> FALSE]

\* the CSV row just processed and the branch of the handler it took
Row(kind, c, t, a, b) ==
    [kind |-> kind, client_id |-> c, tx |-> t, amount |-> a, branch |-> b]

\* ---------------------------------------------------------------- handlers
\* Each handler yields the maps it leaves behind, the branch it took and
\* whether its trailing debug print panicked.

Outcome(cl, rs, b, panicked) ==
    [clients |-> cl, records |-> rs, branch |-> b, panic |-> panicked]

\* deposit_to_account without the `x.locked != true` test
deposit_to_account_ignoring_lock(cl, rs, t) ==
    LET record == rs[t]
        c == record.client_id
    IN  IF c \in DOMAIN cl
        THEN Outcome([cl EXCEPT ![c].available = @ + record.amount,
                                ![c].total = @ + record.amount],
                     rs, IF cl[c].locked THEN "ignored_locked" ELSE "credited", FALSE)
        ELSE Outcome(MapInsert(cl, c, NewClient(c, record.amount)),
                     rs, "created", FALSE)

\* deposit_to_account without `x.total += record.amount`
deposit_to_account_available_only(cl, rs, t) ==
    LET record == rs[t]
        c == record.client_id
    IN  IF c \in DOMAIN cl
        THEN IF cl[c].locked # TRUE
             THEN Outcome([cl EXCEPT ![c].available = @ + record.amount],
                          rs, "credited", FALSE)
             ELSE Outcome(cl, rs, "ignored_locked", FALSE)
        ELSE Outcome(MapInsert(cl, c, NewClient(c, record.amount)),
                     rs, "created", FALSE)

deposit_to_account(cl, rs, t) ==
    LET record == rs[t]
        c == record.client_id
    IN  IF c \in DOMAIN cl
        THEN IF cl[c].locked # TRUE
             THEN Outcome([cl EXCEPT ![c].available = @ + record.amount,
                                     ![c].total = @ + record.amount],
                          rs, "credited", FALSE)
             ELSE Outcome(cl, rs, "ignored_locked", FALSE)
        ELSE Outcome(MapInsert(cl, c, NewClient(c, record.amount)),
                     rs, "created", FALSE)

\* withdraw_from_account with `>=` in place of `>`
withdraw_from_account_ge(cl, rs, t) ==
    LET record == rs[t]
        c == record.client_id
    IN  IF c \in DOMAIN cl
        THEN IF cl[c].available >= record.amount /\ cl[c].locked # TRUE
             THEN Outcome([cl EXCEPT ![c].available = @ - record.amount,
                                     ![c].total = @ - record.amount],
                          rs, "withdrawn", FALSE)
             ELSE Outcome([cl EXCEPT ![c].locked = TRUE],
                          rs, "insufficient", FALSE)
        ELSE Outcome(cl, rs, "no_client", TRUE)

\* withdraw_from_account without `x.locked = true` in the else branch
withdraw_from_account_no_lock(cl, rs, t) ==
    LET record == rs[t]
        c == record.client_id
    IN  IF c \in DOMAIN cl
        THEN IF cl[c].available > record.amount /\ cl[c].locked # TRUE
             THEN Outcome([cl EXCEPT ![c].available = @ - record.amount,
                                     ![c].total = @ - record.amount],
                          rs, "withdrawn", FALSE)
             ELSE Outcome(cl, rs, "insufficient", FALSE)
        ELSE Outcome(cl, rs, "no_client", TRUE)

\* withdraw_from_account without the `x.available > record.amount` test
withdraw_from_account_unchecked(cl, rs, t) ==
    LET record == rs[t]
        c == record.client_id
    IN  IF c \in DOMAIN cl
        THEN IF cl[c].locked # TRUE
             THEN Outcome([cl EXCEPT ![c].available = @ - record.amount,
                                     ![c].total = @ - record.amount],
                          rs, "withdrawn", FALSE)
             ELSE Outcome([cl EXCEPT ![c].locked = TRUE],
                          rs, "insufficient", FALSE)
        ELSE Outcome(cl, rs, "no_client", TRUE)

withdraw_from_account(cl, rs, t) ==
    LET record == rs[t]
        c == record.client_id
    IN  IF c \in DOMAIN cl
        THEN IF cl[c].available > record.amount /\ cl[c].locked # TRUE
             THEN Outcome([cl EXCEPT ![c].available = @ - record.amount,
                                     ![c].total = @ - record.amount],
                          rs, "withdrawn", FALSE)
             ELSE Outcome([cl EXCEPT ![c].locked = TRUE],
                          rs, "insufficient", FALSE)
        \* None => (), then clients.get(..).unwrap() of the debug print panics
        ELSE Outcome(cl, rs, "no_client", TRUE)

\* submit_dispute without the `record.disputed == false` test
submit_dispute_twice(cl, rs, t, client_id) ==
    IF t \notin DOMAIN rs
    THEN Outcome(cl, rs, "no_transaction", FALSE)
    ELSE LET record == rs[t]
             c == record.client_id
         IN  IF client_id = c
             THEN IF record.transaction_type = "deposit"
                  THEN IF c \in DOMAIN cl
                       THEN IF record.locked = FALSE
                            THEN Outcome([cl EXCEPT ![c].available = @ - record.amount,
                                                    ![c].held = @ + record.amount],
                                         [rs EXCEPT ![t].disputed = TRUE],
                                         IF record.disputed THEN "already_disputed"
                                                            ELSE "disputed", FALSE)
                            ELSE Outcome(cl, rs, "already_disputed", FALSE)
                       ELSE Outcome(cl, rs, "no_client", FALSE)
                  ELSE Outcome(cl, rs, "wrong_type", FALSE)
             ELSE Outcome(cl, rs, "client_mismatch", FALSE)

\* submit_dispute that also turns a locked account away
submit_dispute_unlocked_only(cl, rs, t, client_id) ==
    IF t \notin DOMAIN rs
    THEN Outcome(cl, rs, "no_transaction", FALSE)
    ELSE LET record == rs[t]
             c == record.client_id
         IN  IF client_id = c
             THEN IF record.transaction_type = "deposit"
                  THEN IF c \in DOMAIN cl
                       THEN IF record.disputed = FALSE /\ record.locked = FALSE
                               /\ cl[c].locked = FALSE
                            THEN Outcome([cl EXCEPT ![c].available = @ - record.amount,
                                                    ![c].held = @ + record.amount],
                                         [rs EXCEPT ![t].disputed = TRUE],
                                         "disputed", FALSE)
                            ELSE Outcome(cl, rs, "already_disputed", FALSE)
                       ELSE Outcome(cl, rs, "no_client", FALSE)
                  ELSE Outcome(cl, rs, "wrong_type", FALSE)
             ELSE Outcome(cl, rs, "client_mismatch", FALSE)

\* submit_dispute without the `client_id == &record.client_id` test
submit_dispute_any_client(cl, rs, t, client_id) ==
    IF t \notin DOMAIN rs
    THEN Outcome(cl, rs, "no_transaction", FALSE)
    ELSE LET record == rs[t]
             c == record.client_id
         IN  IF record.transaction_type = "deposit"
             THEN IF c \in DOMAIN cl
                  THEN IF record.disputed = FALSE /\ record.locked = FALSE
                       THEN Outcome([cl EXCEPT ![c].available = @ - record.amount,
                                               ![c].held = @ + record.amount],
                                    [rs EXCEPT ![t].disputed = TRUE],
                                    "disputed", FALSE)
                       ELSE Outcome(cl, rs, "already_disputed", FALSE)
                  ELSE Outcome(cl, rs, "no_client", FALSE)
             ELSE Outcome(cl, rs, "wrong_type", FALSE)

submit_dispute(cl, rs, t, client_id) ==
    IF t \notin DOMAIN rs
    THEN Outcome(cl, rs, "no_transaction", FALSE)
    ELSE LET record == rs[t]
             c == record.client_id
         IN  IF client_id = c
             THEN IF record.transaction_type = "deposit"
                  THEN IF c \in DOMAIN cl
                       THEN IF record.disputed = FALSE /\ record.locked = FALSE
                            THEN Outcome([cl EXCEPT ![c].available = @ - record.amount,
                                                    ![c].held = @ + record.amount],
                                         [rs EXCEPT ![t].disputed = TRUE],
                                         "disputed", FALSE)
                            ELSE Outcome(cl, rs, "already_disputed", FALSE)
                       ELSE Outcome(cl, rs, "no_client", FALSE)
                  ELSE Outcome(cl, rs, "wrong_type", FALSE)
             ELSE Outcome(cl, rs, "client_mismatch", FALSE)

\* resolve_dispute without the `record.disputed == true` test
resolve_dispute_unchecked(cl, rs, t, client_id) ==
    IF t \notin DOMAIN rs
    THEN Outcome(cl, rs, "no_transaction", FALSE)
    ELSE LET record == rs[t]
             c == record.client_id
         IN  IF client_id = c
             THEN IF record.transaction_type = "deposit"
                  THEN IF c \in DOMAIN cl
                       THEN Outcome([cl EXCEPT ![c].available = @ + record.amount,
                                               ![c].held = @ - record.amount],
                                    [rs EXCEPT ![t].disputed = FALSE],
                                    IF record.disputed THEN "resolved"
                                                       ELSE "not_disputed", FALSE)
                       ELSE Outcome(cl, rs, "no_client", FALSE)
                  ELSE Outcome(cl, rs, "wrong_type", FALSE)
             ELSE Outcome(cl, rs, "client_mismatch", FALSE)

\* resolve_dispute without `x.held -= record.amount`
resolve_dispute_keeping_held(cl, rs, t, client_id) ==
    IF t \notin DOMAIN rs
    THEN Outcome(cl, rs, "no_transaction", FALSE)
    ELSE LET record == rs[t]
             c == record.client_id
         IN  IF client_id = c
             THEN IF record.transaction_type = "deposit"
                  THEN IF c \in DOMAIN cl
                       THEN IF record.disputed = TRUE
                            THEN Outcome([cl EXCEPT ![c].available = @ + record.amount],
                                         [rs EXCEPT ![t].disputed = FALSE],
                                         "resolved", FALSE)
                            ELSE Outcome(cl, rs, "not_disputed", FALSE)
                       ELSE Outcome(cl, rs, "no_client", FALSE)
                  ELSE Outcome(cl, rs, "wrong_type", FALSE)
             ELSE Outcome(cl, rs, "client_mismatch", FALSE)

\* resolve_dispute that also clears the account's lock
resolve_dispute_unlocking(cl, rs, t, client_id) ==
    IF t \notin DOMAIN rs
    THEN Outcome(cl, rs, "no_transaction", FALSE)
    ELSE LET record == rs[t]
             c == record.client_id
         IN  IF client_id = c
             THEN IF record.transaction_type = "deposit"
                  THEN IF c \in DOMAIN cl
                       THEN IF record.disputed = TRUE
                            THEN Outcome([cl EXCEPT ![c].available = @ + record.amount,
                                                    ![c].held = @ - record.amount,
                                                    ![c].locked = FALSE],
                                         [rs EXCEPT ![t].disputed = FALSE],
                                         "resolved", FALSE)
                            ELSE Outcome(cl, rs, "not_disputed", FALSE)
                       ELSE Outcome(cl, rs, "no_client", FALSE)
                  ELSE Outcome(cl, rs, "wrong_type", FALSE)
             ELSE Outcome(cl, rs, "client_mismatch", FALSE)

resolve_dispute(cl, rs, t, client_id) ==
    IF t \notin DOMAIN rs
    THEN Outcome(cl, rs, "no_transaction", FALSE)
    ELSE LET record == rs[t]
             c == record.client_id
         IN  IF client_id = c
             THEN IF record.transaction_type = "deposit"
                  THEN IF c \in DOMAIN cl
                       THEN IF record.disputed = TRUE
                            THEN Outcome([cl EXCEPT ![c].available = @ + record.amount,
                                                    ![c].held = @ - record.amount],
                                         [rs EXCEPT ![t].disputed = FALSE],
                                         "resolved", FALSE)
                            ELSE Outcome(cl, rs, "not_disputed", FALSE)
                       ELSE Outcome(cl, rs, "no_client", FALSE)
                  ELSE Outcome(cl, rs, "wrong_type", FALSE)
             ELSE Outcome(cl, rs, "client_mismatch", FALSE)

\* issue_chargeback without `x.total -= record.amount`
issue_chargeback_keeping_total(cl, rs, t, client_id) ==
    IF t \notin DOMAIN rs
    THEN Outcome(cl, rs, "no_transaction", FALSE)
    ELSE LET record == rs[t]
             c == record.client_id
         IN  IF client_id = c
             THEN IF record.transaction_type = "deposit"
                  THEN IF c \in DOMAIN cl
                       THEN IF record.disputed = TRUE
                            THEN Outcome([cl EXCEPT ![c].held = @ - record.amount,
                                                    ![c].locked = TRUE],
                                         [rs EXCEPT ![t].disputed = FALSE,
                                                    ![t].locked = TRUE],
                                         "charged_back", FALSE)
                            ELSE Outcome(cl, rs, "not_disputed", FALSE)
                       ELSE Outcome(cl, rs, "no_client", FALSE)
                  ELSE Outcome(cl, rs, "wrong_type", FALSE)
             ELSE Outcome(cl, rs, "client_mismatch", FALSE)

\* issue_chargeback without `x.locked = true`
issue_chargeback_no_account_lock(cl, rs, t, client_id) ==
    IF t \notin DOMAIN rs
    THEN Outcome(cl, rs, "no_transaction", FALSE)
    ELSE LET record == rs[t]
             c == record.client_id
         IN  IF client_id = c
             THEN IF record.transaction_type = "deposit"
                  THEN IF c \in DOMAIN cl
                       THEN IF record.disputed = TRUE
                            THEN Outcome([cl EXCEPT ![c].total = @ - record.amount,
                                                    ![c].held = @ - record.amount],
                                         [rs EXCEPT ![t].disputed = FALSE,
                                                    ![t].locked = TRUE],
                                         "charged_back", FALSE)
                            ELSE Outcome(cl, rs, "not_disputed", FALSE)
                       ELSE Outcome(cl, rs, "no_client", FALSE)
                  ELSE Outcome(cl, rs, "wrong_type", FALSE)
             ELSE Outcome(cl, rs, "client_mismatch", FALSE)

\* issue_chargeback without `x.held -= record.amount`
issue_chargeback_keeping_held(cl, rs, t, client_id) ==
    IF t \notin DOMAIN rs
    THEN Outcome(cl, rs, "no_transaction", FALSE)
    ELSE LET record == rs[t]
             c == record.client_id
         IN  IF client_id = c
             THEN IF record.transaction_type = "deposit"
                  THEN IF c \in DOMAIN cl
                       THEN IF record.disputed = TRUE
                            THEN Outcome([cl EXCEPT ![c].total = @ - record.amount,
                                                    ![c].locked = TRUE],
                                         [rs EXCEPT ![t].disputed = FALSE,
                                                    ![t].locked = TRUE],
                                         "charged_back", FALSE)
                            ELSE Outcome(cl, rs, "not_disputed", FALSE)
                       ELSE Outcome(cl, rs, "no_client", FALSE)
                  ELSE Outcome(cl, rs, "wrong_type", FALSE)
             ELSE Outcome(cl, rs, "client_mismatch", FALSE)

issue_chargeback(cl, rs, t, client_id) ==
    IF t \notin DOMAIN rs
    THEN Outcome(cl, rs, "no_transaction", FALSE)
    ELSE LET record == rs[t]
             c == record.client_id
         IN  IF client_id = c
             THEN IF record.transaction_type = "deposit"
                  THEN IF c \in DOMAIN cl
                       THEN IF record.disputed = TRUE
                            THEN Outcome([cl EXCEPT ![c].total = @ - record.amount,
                                                    ![c].held = @ - record.amount,
                                                    ![c].locked = TRUE],
                                         [rs EXCEPT ![t].disputed = FALSE,
                                                    ![t].locked = TRUE],
                                         "charged_back", FALSE)
                            ELSE Outcome(cl, rs, "not_disputed", FALSE)
                       ELSE Outcome(cl, rs, "no_client", FALSE)
                  ELSE Outcome(cl, rs, "wrong_type", FALSE)
             ELSE Outcome(cl, rs, "client_mismatch", FALSE)

\* ------------------------------------------------------------- the machine
Init ==
    /\ clients = EmptyMap
    /\ records = EmptyMap
    /\ last = Row("none", 0, 0, 0, "none")
    /\ pc = "reading"
    /\ n = 0
    /\ applied = {}

\* the end of one iteration of `for result in rdr.records()`
Commit(kind, c, t, a, out) ==
    /\ clients' = out.clients
    /\ records' = out.records
    /\ last' = Row(kind, c, t, a, out.branch)
    /\ pc' = IF out.panic THEN "panicked" ELSE "reading"
    /\ n' = n + 1
    /\ applied' = IF out.branch \in {"created", "credited", "withdrawn"}
                  THEN applied \cup {t}
                  ELSE IF kind \in {"deposit", "withdrawal"}
                       THEN applied \ {t}
                       ELSE applied

Deposit(c, t, a) ==
    /\ pc = "reading" /\ n < MaxRecords
    /\ Commit("deposit", c, t, a,
              deposit_to_account(clients, MapInsert(records, t, NewRecord("deposit", c, a)), t))

Withdrawal(c, t, a) ==
    /\ pc = "reading" /\ n < MaxRecords
    /\ Commit("withdrawal", c, t, a,
              withdraw_from_account(clients, MapInsert(records, t, NewRecord("withdrawal", c, a)), t))

Dispute(c, t) ==
    /\ pc = "reading" /\ n < MaxRecords
    /\ Commit("dispute", c, t, 0, submit_dispute(clients, records, t, c))

Resolve(c, t) ==
    /\ pc = "reading" /\ n < MaxRecords
    /\ Commit("resolve", c, t, 0, resolve_dispute(clients, records, t, c))

Chargeback(c, t) ==
    /\ pc = "reading" /\ n < MaxRecords
    /\ Commit("chargeback", c, t, 0, issue_chargeback(clients, records, t, c))

Next ==
    \/ \E c \in ClientIds, t \in TxIds, a \in Amounts : Deposit(c, t, a)
    \/ \E c \in ClientIds, t \in TxIds, a \in Amounts : Withdrawal(c, t, a)
    \/ \E c \in ClientIds, t \in TxIds : Dispute(c, t)
    \/ \E c \in ClientIds, t \in TxIds : Resolve(c, t)
    \/ \E c \in ClientIds, t \in TxIds : Chargeback(c, t)

Spec == Init /\ [][Next]_vars

\* The same loop fed a stream in which every deposit and withdrawal row
\* carries a transaction id that no earlier row carried (so records.insert
\* of line 82 never overwrites).
DepositNewId(c, t, a) ==
    /\ pc = "reading" /\ n < MaxDistinctRecords
    /\ t \notin DOMAIN records
    /\ Commit("deposit", c, t, a,
              deposit_to_account(clients, MapInsert(records, t, NewRecord("deposit", c, a)), t))

WithdrawalNewId(c, t, a) ==
    /\ pc = "reading" /\ n < MaxDistinctRecords
    /\ t \notin DOMAIN records
    /\ Commit("withdrawal", c, t, a,
              withdraw_from_account(clients, MapInsert(records, t, NewRecord("withdrawal", c, a)), t))

DisputeLong(c, t) ==
    /\ pc = "reading" /\ n < MaxDistinctRecords
    /\ Commit("dispute", c, t, 0, submit_dispute(clients, records, t, c))

ResolveLong(c, t) ==
    /\ pc = "reading" /\ n < MaxDistinctRecords
    /\ Commit("resolve", c, t, 0, resolve_dispute(clients, records, t, c))

ChargebackLong(c, t) ==
    /\ pc = "reading" /\ n < MaxDistinctRecords
    /\ Commit("chargeback", c, t, 0, issue_chargeback(clients, records, t, c))

NextDistinct ==
    \/ \E c \in ClientIds, t \in DistinctTxIds, a \in Amounts : DepositNewId(c, t, a)
    \/ \E c \in ClientIds, t \in DistinctTxIds, a \in Amounts : WithdrawalNewId(c, t, a)
    \/ \E c \in ClientIds, t \in DistinctTxIds : DisputeLong(c, t)
    \/ \E c \in ClientIds, t \in DistinctTxIds : ResolveLong(c, t)
    \/ \E c \in ClientIds, t \in DistinctTxIds : ChargebackLong(c, t)

SpecDistinct == Init /\ [][NextDistinct]_vars

TypeOK ==
    /\ DOMAIN clients \subseteq ClientIds
    /\ DOMAIN records \subseteq TxIds \cup DistinctTxIds
    /\ applied \subseteq DOMAIN records
    /\ pc \in {"reading", "panicked"}
    /\ n \in 0..(MaxRecords + MaxDistinctRecords)

\* ------------------------------------------------------------------ claims

\* C1: in every reachable state every account of the Account Book has
\* total = available + held.
C1_TotalIsAvailablePlusHeld ==
    \A c \in DOMAIN clients :
        clients[c].total = clients[c].available + clients[c].held

\* a chargeback has just removed a non-zero amount from held and total
C1_Witness ==
    /\ last.kind = "chargeback" /\ last.branch = "charged_back"
    /\ records[last.tx].amount # 0
    /\ clients[last.client_id].held = 0
    /\ clients[last.client_id].locked

\* C2: in every reachable state every account has held >= 0, and held is
\* non-zero only if some Ledger record of the account's client is disputed,
\* also when Deposit/Withdrawal records reuse an id.
C2_HeldBackedByDispute ==
    \A c \in DOMAIN clients :
        /\ clients[c].held >= 0
        /\ clients[c].held # 0 =>
               \E t \in DOMAIN records :
                   records[t].client_id = c /\ records[t].disputed

\* C3: a Withdrawal for an existing account takes the success branch exactly
\* when available > amount (strictly) and the account is not locked; then
\* available and total each drop by amount, held and locked stay, and
\* available is not negative afterwards; otherwise (also when amount equals
\* available) the balances do not move.
C3_WithdrawalSucceedsIffStrictlyCovered ==
    [][ (last'.kind = "withdrawal" /\ last'.client_id \in DOMAIN clients) =>
          LET c == last'.client_id
              a == last'.amount
              x == clients[c]
          IN  /\ c \in DOMAIN clients'
              /\ IF x.available > a /\ ~x.locked
                 THEN /\ last'.branch = "withdrawn"
                      /\ clients'[c] = [x EXCEPT !.available = x.available - a,
                                                 !.total = x.total - a]
                      /\ clients'[c].available >= 0
                 ELSE /\ last'.branch # "withdrawn"
                      /\ clients'[c].available = x.available
                      /\ clients'[c].held = x.held
                      /\ clients'[c].total = x.total ]_vars

\* a withdrawal of a positive amount has just succeeded
C3_Witness ==
    /\ last.kind = "withdrawal" /\ last.branch = "withdrawn"
    /\ last.amount > 0
    /\ clients[last.client_id].available > 0

\* C4: a Withdrawal for an existing account that does not succeed
\* (available <= amount, or account locked) leaves available, held and total
\* as they were and leaves the account locked.
C4_FailedWithdrawalLocks ==
    [][ (/\ last'.kind = "withdrawal"
         /\ last'.client_id \in DOMAIN clients
         /\ \/ clients[last'.client_id].available <= last'.amount
            \/ clients[last'.client_id].locked) =>
          /\ last'.client_id \in DOMAIN clients'
          /\ clients'[last'.client_id] =
                 [clients[last'.client_id] EXCEPT !.locked = TRUE] ]_vars

\* the boundary: a withdrawal of exactly the available funds was turned away
\* and the account is locked
C4_Witness ==
    /\ last.kind = "withdrawal" /\ last.branch = "insufficient"
    /\ clients[last.client_id].available = last.amount
    /\ last.amount > 0
    /\ clients[last.client_id].locked

\* C5: a Withdrawal whose client has no account is a no-op: no account is
\* created or changed and the run does not abort.
C5_WithdrawalWithoutAccountIsNoOp ==
    [][ (last'.kind = "withdrawal" /\ last'.client_id \notin DOMAIN clients) =>
          (clients' = clients /\ pc' = "reading") ]_vars

\* C6: once an account is locked it stays locked, and every later Deposit or
\* Withdrawal record of that client leaves available, held and total alone.
C6_TerminalLock ==
    [][ \A c \in DOMAIN clients :
          clients[c].locked =>
            /\ c \in DOMAIN clients'
            /\ clients'[c].locked
            /\ (last'.kind \in {"deposit", "withdrawal"} /\ last'.client_id = c) =>
                 /\ clients'[c].available = clients[c].available
                 /\ clients'[c].held = clients[c].held
                 /\ clients'[c].total = clients[c].total ]_vars

\* a deposit of a non-zero amount has just been ignored by a locked account
C6_Witness ==
    /\ last.kind = "deposit" /\ last.branch = "ignored_locked"
    /\ last.amount # 0
    /\ clients[last.client_id].locked

\* C7: a Dispute changes neither map when the id is unknown, the client
\* differs from the record's, the record is not a Deposit, the record is
\* already disputed or locked, or the owning account is missing; and a
\* Dispute that repeats the previous record changes nothing.
C7_RejectedDisputeChangesNothing ==
    [][ last'.kind = "dispute" =>
          LET t == last'.tx
              c == last'.client_id
          IN  /\ ( \/ t \notin DOMAIN records
                   \/ /\ t \in DOMAIN records
                      /\ \/ records[t].client_id # c
                         \/ records[t].transaction_type # "deposit"
                         \/ records[t].disputed
                         \/ records[t].locked
                         \/ records[t].client_id \notin DOMAIN clients ) =>
                     (clients' = clients /\ records' = records)
              /\ (last.kind = "dispute" /\ last.tx = t /\ last.client_id = c) =>
                     (clients' = clients /\ records' = records) ]_vars

\* the same Dispute arrived a second time while the record is under dispute
C7_Witness ==
    /\ last.kind = "dispute" /\ last.branch = "already_disputed"
    /\ records[last.tx].disputed
    /\ records[last.tx].amount # 0
    /\ clients[last.client_id].held = records[last.tx].amount

\* C8: a Dispute of an existing Deposit of the same client that is neither
\* disputed nor locked, with the account present, succeeds whether or not
\* the account is locked: available drops by the amount, held rises by it,
\* total and the account's lock stay, the record becomes disputed.
C8_EligibleDisputeHoldsFunds ==
    [][ (/\ last'.kind = "dispute"
         /\ last'.tx \in DOMAIN records
         /\ records[last'.tx].transaction_type = "deposit"
         /\ records[last'.tx].client_id = last'.client_id
         /\ ~records[last'.tx].disputed
         /\ ~records[last'.tx].locked
         /\ last'.client_id \in DOMAIN clients) =>
          LET t == last'.tx
              c == last'.client_id
              a == records[t].amount
          IN  /\ clients' = [clients EXCEPT ![c].available = @ - a,
                                            ![c].held = @ + a]
              /\ records' = [records EXCEPT ![t].disputed = TRUE] ]_vars

\* a dispute has just moved funds to held on an account that is locked
C8_Witness ==
    /\ last.kind = "dispute" /\ last.branch = "disputed"
    /\ clients[last.client_id].locked
    /\ clients[last.client_id].held # 0
    /\ records[last.tx].disputed

\* C9: a Resolve changes state only when the record exists, is a Deposit of
\* the same client, is disputed and the account exists; then available rises
\* by the amount, held drops by it, total and locked stay and the record is
\* no longer disputed.  In every other case nothing changes.
C9_ResolveOnlyReleasesDisputed ==
    [][ last'.kind = "resolve" =>
          LET t == last'.tx
              c == last'.client_id
          IN  IF /\ t \in DOMAIN records
                 /\ records[t].transaction_type = "deposit"
                 /\ records[t].client_id = c
                 /\ records[t].disputed
                 /\ c \in DOMAIN clients
              THEN /\ clients' = [clients EXCEPT
                                    ![c].available = @ + records[t].amount,
                                    ![c].held = @ - records[t].amount]
                   /\ records' = [records EXCEPT ![t].disputed = FALSE]
              ELSE clients' = clients /\ records' = records ]_vars

\* a resolve has just released a non-zero amount
C9_Witness ==
    /\ last.kind = "resolve" /\ last.branch = "resolved"
    /\ records[last.tx].amount # 0
    /\ ~records[last.tx].disputed

\* C10: a Chargeback changes state only when the record exists, is a Deposit
\* of the same client, is disputed and the account exists; then held and
\* total each drop by the amount, available stays, the account becomes
\* locked and the record becomes not disputed and locked.  In every other
\* case nothing changes.
C10_ChargebackOnlyRemovesDisputed ==
    [][ last'.kind = "chargeback" =>
          LET t == last'.tx
              c == last'.client_id
          IN  IF /\ t \in DOMAIN records
                 /\ records[t].transaction_type = "deposit"
                 /\ records[t].client_id = c
                 /\ records[t].disputed
                 /\ c \in DOMAIN clients
              THEN /\ clients' = [clients EXCEPT
                                    ![c].held = @ - records[t].amount,
                                    ![c].total = @ - records[t].amount,
                                    ![c].locked = TRUE]
                   /\ records' = [records EXCEPT ![t].disputed = FALSE,
                                                 ![t].locked = TRUE]
              ELSE clients' = clients /\ records' = records ]_vars

\* a chargeback has just locked the record and the account
C10_Witness ==
    /\ last.kind = "chargeback" /\ last.branch = "charged_back"
    /\ records[last.tx].locked /\ ~records[last.tx].disputed
    /\ records[last.tx].amount # 0
    /\ clients[last.client_id].locked

\* C11: the dispute state of a Ledger entry changes only Undisputed ->
\* Disputed by a Dispute, Disputed -> Undisputed by a Resolve and Disputed ->
\* ChargedBack by a Chargeback; no entry disappears, and no Dispute, Resolve
\* or Chargeback that references a charged-back entry succeeds.
C11_DisputeLifecycle ==
    [][ \A t \in DOMAIN records :
          LET st(r) == IF r.locked THEN "charged_back"
                       ELSE IF r.disputed THEN "disputed" ELSE "undisputed"
          IN  /\ t \in DOMAIN records'
              /\ st(records[t]) # st(records'[t]) =>
                   \/ /\ st(records[t]) = "undisputed"
                      /\ st(records'[t]) = "disputed"
                      /\ last'.kind = "dispute"
                   \/ /\ st(records[t]) = "disputed"
                      /\ st(records'[t]) = "undisputed"
                      /\ last'.kind = "resolve"
                   \/ /\ st(records[t]) = "disputed"
                      /\ st(records'[t]) = "charged_back"
                      /\ last'.kind = "chargeback"
              /\ (/\ records[t].locked
                  /\ last'.kind \in {"dispute", "resolve", "chargeback"}
                  /\ last'.tx = t) =>
                   last'.branch \notin {"disputed", "resolved", "charged_back"} ]_vars

\* C12: a Deposit for a client without account creates the account with
\* available = total = amount, held = 0, unlocked; for an unlocked account
\* it adds amount to available and total and nothing else; for a locked
\* account it changes no field.
C12_DepositCreatesOrCredits ==
    [][ last'.kind = "deposit" =>
          LET c == last'.client_id
              a == last'.amount
          IN  /\ c \in DOMAIN clients'
              /\ IF c \notin DOMAIN clients
                 THEN clients'[c] = [client_id |-> c, available |-> a, held |-> 0,
                                     total |-> a, locked |-> FALSE]
                 ELSE IF clients[c].locked
                      THEN clients'[c] = clients[c]
                      ELSE clients'[c] =
                               [clients[c] EXCEPT !.available = clients[c].available + a,
                                                  !.total = clients[c].total + a] ]_vars

\* a second deposit has just been added to an existing unlocked account
C12_Witness ==
    /\ last.kind = "deposit" /\ last.branch = "credited"
    /\ last.amount # 0
    /\ clients[last.client_id].available # last.amount
    /\ ~clients[last.client_id].locked

\* C13: a rejected row (dispute-family row with unknown id, client mismatch
\* or wrong target type, re-dispute, resolve/chargeback of a record that is
\* not disputed, withdrawal with insufficient funds, deposit or withdrawal
\* on a locked account) leaves the Account Book and the Ledger exactly as
\* they were, except that a failed withdrawal sets the account's lock.
C13_RejectedRowChangesNothing ==
    [][ /\ last'.branch \in {"no_transaction", "client_mismatch", "wrong_type",
                             "already_disputed", "not_disputed", "ignored_locked"} =>
              (clients' = clients /\ records' = records)
        /\ last'.branch = "insufficient" =>
              /\ clients' = [clients EXCEPT ![last'.client_id].locked = TRUE]
              /\ records' = records ]_vars

\* C14: a Deposit or Withdrawal row sets the Ledger entry of its id to
\* (kind, client, amount, not disputed, not locked) whatever the handler
\* does and touches no other entry; a Dispute, Resolve or Chargeback row
\* adds no entry, changes at most the flags of the entry it references and
\* never a kind, client or amount; no entry is ever removed.
C14_LedgerMutationDiscipline ==
    [][ /\ DOMAIN records \subseteq DOMAIN records'
        /\ last'.kind \in {"deposit", "withdrawal"} =>
              /\ DOMAIN records' = DOMAIN records \cup {last'.tx}
              /\ records'[last'.tx] =
                     [transaction_type |-> last'.kind, client_id |-> last'.client_id,
                      amount |-> last'.amount, disputed |-> FALSE, locked |-> FALSE]
              /\ \A u \in DOMAIN records : u # last'.tx => records'[u] = records[u]
        /\ last'.kind \in {"dispute", "resolve", "chargeback"} =>
              /\ DOMAIN records' = DOMAIN records
              /\ \A u \in DOMAIN records :
                    /\ records'[u].transaction_type = records[u].transaction_type
                    /\ records'[u].client_id = records[u].client_id
                    /\ records'[u].amount = records[u].amount
                    /\ u # last'.tx => records'[u] = records[u] ]_vars

\* three rows have all carried the same id, the last one a deposit that the
\* locked account ignored, and the entry is that deposit's
C14_Witness ==
    /\ n = 3
    /\ DOMAIN records = {last.tx}
    /\ last.kind = "deposit" /\ last.branch = "ignored_locked"
    /\ records[last.tx].transaction_type = "deposit"
    /\ records[last.tx].amount = last.amount
    /\ ~records[last.tx].disputed

\* C15: in every state in which a Dispute of a Deposit record succeeds, that
\* Dispute followed at once by a Resolve of the same id and client gives
\* back the account (available, held, total, locked) and the Ledger entry
\* (disputed, locked) exactly as they were before the Dispute.
C15_DisputeResolveRoundTrip ==
    \A c \in ClientIds, t \in TxIds :
        LET d == submit_dispute(clients, records, t, c)
            r == resolve_dispute(d.clients, d.records, t, c)
        IN  d.branch = "disputed" =>
               /\ d.clients[c] # clients[c] \/ records[t].amount = 0
               /\ d.records[t].disputed
               /\ r.branch = "resolved"
               /\ r.clients = clients
               /\ r.records = records

\* the stream was exactly deposit, dispute, resolve of a non-zero amount and
\* the account is as the deposit left it
C15_Witness ==
    /\ n = 3
    /\ last.kind = "resolve" /\ last.branch = "resolved"
    /\ records[last.tx].amount # 0
    /\ clients[last.client_id] = [client_id |-> last.client_id,
                                  available |-> records[last.tx].amount,
                                  held |-> 0,
                                  total |-> records[last.tx].amount,
                                  locked |-> FALSE]
    /\ ~records[last.tx].disputed /\ ~records[last.tx].locked

\* C16: an account that is locked is locked in every later state, whatever
\* rows follow, and no account ever leaves the Account Book.
C16_LockIsPermanent ==
    [][ \A c \in DOMAIN clients :
          /\ c \in DOMAIN clients'
          /\ clients[c].locked => clients'[c].locked ]_vars

\* a dispute and its resolve were processed on an account that a failed
\* withdrawal had locked, and the account is still locked
C16_Witness ==
    /\ n = 4
    /\ last.kind = "resolve" /\ last.branch = "resolved"
    /\ clients[last.client_id].locked
    /\ ~records[last.tx].locked
    /\ \E t \in DOMAIN records : records[t].transaction_type = "withdrawal"

\* C17: when every Deposit/Withdrawal row carries a new id, each account's
\* held is the sum of the amounts of the client's Deposit entries that are
\* disputed.
C17_HeldIsSumOfDisputed ==
    \A c \in DOMAIN clients :
        LET RECURSIVE Sum(_)
            Sum(S) == IF S = {} THEN 0
                      ELSE LET t == CHOOSE x \in S : TRUE
                           IN  records[t].amount + Sum(S \ {t})
        IN  clients[c].held =
                Sum({t \in DOMAIN records :
                        /\ records[t].client_id = c
                        /\ records[t].transaction_type = "deposit"
                        /\ records[t].disputed})

\* a second deposit of the client has just been disputed and both amounts
\* are held
C17_Witness ==
    /\ last.kind = "dispute" /\ last.branch = "disputed"
    /\ records[last.tx].amount > 0
    /\ \E t \in DOMAIN records :
          /\ t # last.tx
          /\ records[t].client_id = last.client_id
          /\ records[t].disputed
          /\ records[t].amount > 0
          /\ clients[last.client_id].held = records[t].amount + records[last.tx].amount

\* C18: with new ids and non-negative amounts, each account's total is the
\* sum of the deposits credited to it, minus its successful withdrawals,
\* minus its charged-back deposits that had been credited; and a deposit
\* that a locked account ignored is never disputed or charged back so as to
\* move funds.
C18_FundsConservation ==
    (\A t \in DOMAIN records : records[t].amount >= 0) =>
        /\ \A c \in DOMAIN clients :
              LET RECURSIVE Sum(_)
                  Sum(S) == IF S = {} THEN 0
                            ELSE LET t == CHOOSE x \in S : TRUE
                                 IN  records[t].amount + Sum(S \ {t})
                  mine(kind) == {t \in applied : /\ records[t].client_id = c
                                                 /\ records[t].transaction_type = kind}
              IN  clients[c].total =
                      Sum(mine("deposit")) - Sum(mine("withdrawal"))
                        - Sum({t \in mine("deposit") : records[t].locked})
        /\ \A t \in DOMAIN records :
              (/\ records[t].transaction_type = "deposit"
               /\ t \notin applied
               /\ records[t].amount # 0) =>
                  (~records[t].disputed /\ ~records[t].locked)

\* C19 as stated: with non-negative amounts every account has
\* available >= 0 in every reachable state.
C19_AvailableNeverNegative ==
    (\A t \in DOMAIN records : records[t].amount >= 0) =>
        \A c \in DOMAIN clients : clients[c].available >= 0

\* C19 as amended: with non-negative amounts a new account starts with
\* available >= 0 and no Deposit, Withdrawal, Resolve or Chargeback row
\* takes available from >= 0 to below zero; only a successful Dispute does.
C19_OnlyDisputeDrivesAvailableNegative ==
    [][ (\A t \in DOMAIN records' : records'[t].amount >= 0) =>
          \A c \in DOMAIN clients' :
             (/\ clients'[c].available < 0
              /\ c \in DOMAIN clients => clients[c].available >= 0) =>
                (last'.kind = "dispute" /\ last'.branch = "disputed"
                   /\ last'.client_id = c) ]_vars

\* with non-negative amounts only, a dispute of a deposit whose funds were
\* partly withdrawn has just left available below zero
C19_Witness ==
    /\ \A t \in DOMAIN records : records[t].amount >= 0
    /\ last.kind = "dispute" /\ last.branch = "disputed"
    /\ clients[last.client_id].available < 0
    /\ \E t \in applied : /\ records[t].transaction_type = "withdrawal"
                          /\ records[t].client_id = last.client_id

\* C20: a row of client c leaves the account of every other client as it
\* was and creates no account but c's; a Dispute, Resolve or Chargeback
\* that changes an account changes the one whose client is both the row's
\* and the referenced entry's.
C20_ClientIsolation ==
    [][ /\ \A c \in DOMAIN clients :
              c # last'.client_id =>
                 (c \in DOMAIN clients' /\ clients'[c] = clients[c])
        /\ DOMAIN clients' \subseteq DOMAIN clients \cup {last'.client_id}
        /\ (last'.kind \in {"dispute", "resolve", "chargeback"} /\ clients' # clients) =>
              /\ last'.tx \in DOMAIN records
              /\ records[last'.tx].client_id = last'.client_id ]_vars

\* a dispute by one client of the other client's deposit has just been
\* turned away while both have accounts
C20_Witness ==
    /\ last.kind = "dispute" /\ last.branch = "client_mismatch"
    /\ last.client_id \in DOMAIN clients
    /\ records[last.tx].client_id \in DOMAIN clients
    /\ records[last.tx].transaction_type = "deposit"
    /\ ~records[last.tx].disputed
    /\ clients[records[last.tx].client_id].held = 0
====
